---- MODULE Spec2Model ----
(***************************************************************************)
(* Model of the tile-processing pipeline of src/services/tileProcessor.ts: *)
(* processImage (grid partitioning, per-cell extraction, deduplication,    *)
(* collision inference, atlas packing, manifest serialisation) and         *)
(* detectCollision, with the canvas calls the platform may fail; and of    *)
(* the App component that calls it (load of an image file, process button, *)
(* delayed callback), under the specification SpecApp.                     *)
(*                                                                         *)
(* Images and canvases are records [width, height, data] whose data is the *)
(* sequence of scanlines, top to bottom, each the sequence of its RGBA     *)
(* pixels <<r, g, b, a>>, left to right (the sequences are built as        *)
(* f \o <<>>, which TLC keeps as indexable tuples).  The                   *)
(* source image is the bitmap the canvas reads from the decoded            *)
(* HTMLImageElement.                                                       *)
(***************************************************************************)
EXTENDS Integers, Sequences, FiniteSets, TLC

----------------------------------------------------------------------------
(* Bounds of the exhaustively enumerated inputs *)
MaxWidth == 3
MaxHeight == 2
MaxPixels == 6
MaxTileSize == 2
MaxColumns == 2
MaxRuns == 2
(* Canvas calls fail only in runs on sources of at most this many pixels *)
MaxFaultPixels == 4
(* The image files the user can pick are 1x1, 2x2, ... up to this side *)
MaxFiles == 2

(* Program constants *)
DEFAULT_TILE_SIZE == 48
DefaultColumns == 8
AlphaThreshold == 10
SolidRatioNum == 3
SolidRatioDen == 4

(* The three messages processImage throws *)
InvalidDimensions == "InvalidDimensions"
NoTempContext == "NoTempContext"
NoResultContext == "NoResultContext"
NoError == "none"

----------------------------------------------------------------------------
(* Pixels, images, canvases *)

Transparent == <<0, 0, 0, 0>>
Palette == { <<0, 0, 0, 10>>, <<0, 0, 0, 11>>, <<255, 0, 0, 11>> }

NoCanvas == [width |-> 0, height |-> 0, data |-> <<>>]

PixelAt(img, px, py) == img.data[py + 1][px + 1]

(* document.createElement('canvas') followed by setting width and height:  *)
(* a transparent-black bitmap of that size.                                *)
createCanvas(w, h) ==
    [width |-> w, height |-> h,
     data |-> [py \in 1..h |-> [px \in 1..w |-> Transparent] \o <<>>] \o <<>>]

(* ctx.clearRect(0, 0, w, h) over the whole canvas *)
clearRect(canvas) ==
    [canvas EXCEPT !.data =
        [py \in 1..canvas.height |->
            [px \in 1..canvas.width |-> Transparent] \o <<>>] \o <<>>]

(* ctx.drawImage(image, sx, sy, sw, sh, dx, dy, sw, sh) on canvas: the     *)
(* sw x sh block of image at (sx, sy) is drawn at (dx, dy), unscaled.      *)
(* Every destination the pipeline draws on has just been cleared, where    *)
(* source-over composition leaves the source pixel.                        *)
drawImage(canvas, image, sx, sy, sw, sh, dx, dy) ==
    [canvas EXCEPT !.data =
        [row \in 1..canvas.height |->
            [col \in 1..canvas.width |->
                LET px == col - 1
                    py == row - 1
                IN IF /\ px >= dx /\ px < dx + sw
                      /\ py >= dy /\ py < dy + sh
                      /\ sx + (px - dx) < image.width
                      /\ sy + (py - dy) < image.height
                   THEN PixelAt(image, sx + (px - dx), sy + (py - dy))
                   ELSE canvas.data[row][col]] \o <<>>] \o <<>>]

(* canvas.toDataURL('image/png'): a lossless encoding of the bitmap, here  *)
(* the header (width, height) and the scanlines' bytes r,g,b,a.            *)
toDataURL(canvas) ==
    [width |-> canvas.width, height |-> canvas.height,
     scanlines |-> [row \in 1..canvas.height |->
                      [i \in 1..(4 * canvas.width) |->
                          canvas.data[row][((i - 1) \div 4) + 1][((i - 1) % 4) + 1]]
                      \o <<>>] \o <<>>]

(* ctx.getImageData(0, 0, size, size).data: the flat array r,g,b,a,...     *)
(* indexed from 0, row by row.                                             *)
getImageData(canvas, size) ==
    [i \in 0..(4 * size * size - 1) |->
        LET px == (i \div 4) % size
            py == (i \div 4) \div size
        IN IF px < canvas.width /\ py < canvas.height
           THEN PixelAt(canvas, px, py)[(i % 4) + 1]
           ELSE 0]

IsOpaquePixel(alpha) == alpha > AlphaThreshold

ExceedsSolidRatioMut(solidPixels, totalPixels) ==
    solidPixels * SolidRatioDen >= SolidRatioNum * totalPixels
(* (solidPixels / totalPixels) > 0.75, with 0.75 = 3/4 exact in binary     *)
ExceedsSolidRatio(solidPixels, totalPixels) ==
    solidPixels * SolidRatioDen > SolidRatioNum * totalPixels

detectCollision(canvas, size) ==
    LET pixels == getImageData(canvas, size)
        solidPixels == Cardinality({i \in DOMAIN pixels :
                                       i % 4 = 3 /\ IsOpaquePixel(pixels[i])})
        totalPixels == size * size
    IN ExceedsSolidRatio(solidPixels, totalPixels)

----------------------------------------------------------------------------
(* The manifest: JSON.stringify and JSON.parse over a token sequence.      *)
(* Numbers are written as their decimal digits, booleans as the literals   *)
(* true and false; punctuation between members is not modelled.            *)

RECURSIVE Digits(_)
Digits(n) == IF n < 10 THEN <<n>> ELSE Digits(n \div 10) \o <<n % 10>>

RECURSIVE NumberOf(_)
NumberOf(ds) ==
    IF Len(ds) = 0 THEN 0
    ELSE 10 * NumberOf(SubSeq(ds, 1, Len(ds) - 1)) + ds[Len(ds)]

Punct(c) == [kind |-> c, str |-> "", num |-> <<>>]
Key(k) == [kind |-> "key", str |-> k, num |-> <<>>]
Str(v) == [kind |-> "string", str |-> v, num |-> <<>>]
Num(n) == [kind |-> "number", str |-> "", num |-> Digits(n)]
Bool(b) == [kind |-> IF b THEN "true" ELSE "false", str |-> "", num |-> <<>>]
(* Date.prototype.toISOString of the instant t *)
toISOString(t) == [kind |-> "string", str |-> "ISO-8601", num |-> Digits(t)]

ManifestTileMut(t) == <<Punct("{"), Key("id"), Num(t.id),
                        Key("collision"), Bool(~t.isSolid), Punct("}")>>
(* resultTiles.map(t => ({ id: t.id, collision: t.isSolid })), one entry   *)
ManifestTile(t) == <<Punct("{"), Key("id"), Num(t.id),
                     Key("collision"), Bool(t.isSolid), Punct("}")>>

RECURSIVE ManifestTiles(_)
ManifestTiles(tiles) ==
    IF Len(tiles) = 0 THEN <<>>
    ELSE ManifestTile(Head(tiles)) \o ManifestTiles(Tail(tiles))

HeaderLen == 23
TileLen == 6

(* JSON.stringify(jsonOutput, null, 2) *)
JSONstringify(tileSize, mode, canvas, tiles, t) ==
    <<Punct("{"),
      Key("info"), Punct("{"),
          Key("tool"), Str("TileSlicer Pro"),
          Key("version"), Str("1.0.0"),
          Key("generatedAt"), toISOString(t),
      Punct("}"),
      Key("config"), Punct("{"),
          Key("tileSize"), Num(tileSize),
          Key("mode"), Str(mode),
          Key("width"), Num(canvas.width),
          Key("height"), Num(canvas.height),
      Punct("}"),
      Key("tiles"), Punct("[")>>
    \o ManifestTiles(tiles)
    \o <<Punct("]"), Punct("}")>>

(* JSON.parse of a manifest: the reader of the exported file *)
JSONparse(tokens) ==
    LET n == (Len(tokens) - HeaderLen - 2) \div TileLen
    IN [config |-> [tileSize |-> NumberOf(tokens[14].num),
                    mode |-> tokens[16].str,
                    width |-> NumberOf(tokens[18].num),
                    height |-> NumberOf(tokens[20].num)],
        tiles |-> [j \in 1..n |->
                     LET base == HeaderLen + TileLen * (j - 1)
                     IN [id |-> NumberOf(tokens[base + 3].num),
                         collision |-> tokens[base + 5].kind = "true"]]]

----------------------------------------------------------------------------
(* Inputs *)

(* Every image of at most MaxWidth x MaxHeight (and MaxPixels) pixels over *)
(* the palette.                                                            *)
SmallImages ==
    UNION { UNION { { [width |-> w, height |-> h, data |-> d] :
                        d \in [1..h -> [1..w -> Palette]] } :
                    h \in {hh \in 1..MaxHeight : w * hh <= MaxPixels} } :
            w \in 1..MaxWidth }

(* options.columns is optional: <<>> when omitted *)
SmallOptions ==
    { [tileSize |-> ts, mode |-> "original", columns |-> <<>>] :
        ts \in 1..MaxTileSize }
    \cup
    { [tileSize |-> ts, mode |-> "optimized", columns |-> <<c>>] :
        ts \in 1..MaxTileSize, c \in 1..MaxColumns }

(* Tilesets of DEFAULT_TILE_SIZE tiles.  Layouts: every pixel opaque white, *)
(* every pixel transparent, or opaque white cells that differ from each    *)
(* other in one byte of their top-left pixel.                              *)
LayoutPixel(layout, px, py) ==
    LET T == DEFAULT_TILE_SIZE
        k == (py \div T) * 16 + (px \div T)
    IN CASE layout = "opaque" -> <<255, 255, 255, 255>>
         [] layout = "transparent" -> Transparent
         [] OTHER -> IF px % T = 0 /\ py % T = 0
                     THEN <<k, 255, 255, 255>>
                     ELSE <<255, 255, 255, 255>>

TilesetImage(w, h, layout) ==
    [width |-> w, height |-> h,
     data |-> [row \in 1..h |->
                 [col \in 1..w |-> LayoutPixel(layout, col - 1, row - 1)] \o <<>>]
              \o <<>>]

(* The tilesets of the documented scenarios: 96x96, 96x48 with two         *)
(* identical halves, 40x40 (smaller than one tile), 480x48 with ten        *)
(* mutually distinct tiles.                                                *)
TilesetImages ==
    LET T == DEFAULT_TILE_SIZE
    IN { TilesetImage(2 * T, 2 * T, "opaque"),
         TilesetImage(2 * T, 2 * T, "distinct"),
         TilesetImage(2 * T, T, "opaque"),
         TilesetImage(2 * T, T, "transparent"),
         TilesetImage(T - 8, T - 8, "opaque"),
         TilesetImage(10 * T, T, "distinct") }

(* The options the App passes (columns: 8), and columns omitted *)
TilesetOptions ==
    { [tileSize |-> DEFAULT_TILE_SIZE, mode |-> "original", columns |-> <<DefaultColumns>>],
      [tileSize |-> DEFAULT_TILE_SIZE, mode |-> "optimized", columns |-> <<>>] }

----------------------------------------------------------------------------
(* State *)

VARIABLES
    sourceImage,          \* the decoded source bitmap
    options,              \* ProcessOptions
    pc,                   \* position inside processImage
    cols, rows, totalTilesPossible,
    tempCanvas, resultCanvas,
    uniqueCount, resultTiles,
    x, y,                 \* the loop indices of the cell scan
    uniqueTilesMap, uniqueTilesList,
    index,                \* the forEach index of the packing loop
    result, error,        \* the settled promise: ProcessResult or Error
    runs, prevResult, prevError,  \* invocations so far, and the previous outcome
    now,                  \* the clock new Date() reads
    mayFault,             \* the platform may still fail one canvas call
    unreadable,           \* tiles (from 1) whose getImageData threw, this run
    noContext,            \* unique tiles (from 1) whose getContext gave null
    prevFailed,           \* the tiles whose pixels could not be read, previous run
    app,                  \* the React state of the App component
    decoding,             \* the files whose FileReader / Image load is in flight
    timers                \* the closures of the pending setTimeout callbacks

locals == <<cols, rows, totalTilesPossible, tempCanvas, resultCanvas,
            uniqueCount, resultTiles, x, y, uniqueTilesMap, uniqueTilesList,
            index>>
inputs == <<sourceImage, options>>
history == <<runs, prevResult, prevError, now>>
environment == <<mayFault, unreadable, noContext, prevFailed>>
pipeline == <<inputs, pc, locals, result, error, history, environment>>
shell == <<app, decoding, timers>>
vars == <<pipeline, shell>>

NoResult == [produced |-> FALSE]
EmptyMap == [h \in {} |-> NoCanvas]

tileSize == options.tileSize
mode == options.mode
(* const { tileSize, mode, columns = 8 } = options *)
columns == IF options.columns = <<>> THEN DefaultColumns ELSE options.columns[1]

(* useState(null) of sourceImage *)
NoImage == [name |-> 0, width |-> 0, height |-> 0]
(* The useState initial values of App (lines 26-41) *)
InitialState ==
    [sourceImage |-> NoImage, fileName |-> 0,
     tileSize |-> DEFAULT_TILE_SIZE, mode |-> "original",
     isProcessing |-> FALSE, result |-> NoResult, error |-> NoError]

Init ==
    /\ app = InitialState /\ decoding = {} /\ timers = {}
    /\ \/ /\ sourceImage \in SmallImages /\ options \in SmallOptions
          /\ mayFault = (sourceImage.width * sourceImage.height <= MaxFaultPixels)
       \/ /\ sourceImage \in TilesetImages /\ options \in TilesetOptions
          /\ mayFault = FALSE
    /\ unreadable = {} /\ noContext = {} /\ prevFailed = {}
    /\ pc = "call"
    /\ cols = 0 /\ rows = 0 /\ totalTilesPossible = 0
    /\ tempCanvas = NoCanvas /\ resultCanvas = NoCanvas
    /\ uniqueCount = 0 /\ resultTiles = <<>>
    /\ x = 0 /\ y = 0
    /\ uniqueTilesMap = EmptyMap /\ uniqueTilesList = <<>>
    /\ index = 0
    /\ result = NoResult /\ error = NoError
    /\ runs = 1 /\ prevResult = NoResult /\ prevError = NoError
    /\ now = 0

----------------------------------------------------------------------------
(* processImage *)

Floor(a, b) == a \div b
(* Math.ceil(a / b) for a >= 0, b > 0 *)
Ceil(a, b) == IF a % b = 0 THEN a \div b ELSE (a \div b) + 1

GridColsMut(width, size) == Ceil(width, size)
(* Math.floor(sourceImage.width / tileSize), likewise for the height *)
GridCols(width, size) == Floor(width, size)

IsTooSmallMut(total) == total < 0
(* totalTilesPossible === 0 *)
IsTooSmall(total) == total = 0

(* Lines 64-70: the grid is computed; a source smaller than one tile throws *)
ComputeGrid ==
    /\ pc = "call"
    /\ cols' = GridCols(sourceImage.width, tileSize)
    /\ rows' = GridCols(sourceImage.height, tileSize)
    /\ totalTilesPossible' = cols' * rows'
    /\ ~IsTooSmall(totalTilesPossible')
    /\ pc' = "canvas"
    /\ UNCHANGED <<inputs, shell, tempCanvas, resultCanvas, uniqueCount, resultTiles,
                   x, y, uniqueTilesMap, uniqueTilesList, index, result, error,
                   history, environment>>

ThrowInvalidDimensions ==
    /\ pc = "call"
    /\ cols' = GridCols(sourceImage.width, tileSize)
    /\ rows' = GridCols(sourceImage.height, tileSize)
    /\ totalTilesPossible' = cols' * rows'
    /\ IsTooSmall(totalTilesPossible')
    /\ pc' = "thrown"
    /\ error' = InvalidDimensions
    /\ UNCHANGED <<inputs, shell, tempCanvas, resultCanvas, uniqueCount, resultTiles,
                   x, y, uniqueTilesMap, uniqueTilesList, index, result,
                   history, environment>>

(* Lines 72-86: the scratch canvas gets its size; the result canvas is     *)
(* created and gets its size and bitmap in the mode's branch (its default  *)
(* size is never read).  Then the mode is dispatched.                      *)
CreateCanvases ==
    /\ pc = "canvas"
    /\ tempCanvas' = createCanvas(tileSize, tileSize)
    /\ uniqueCount' = 0
    /\ resultTiles' = <<>>
    /\ pc' = IF mode = "original" THEN "original" ELSE "scan"
    /\ UNCHANGED <<inputs, shell, cols, rows, totalTilesPossible, resultCanvas,
                   x, y, uniqueTilesMap, uniqueTilesList, index, result, error,
                   history, environment>>

(* getContext('2d') returned null for the scratch canvas (line 78) *)
ThrowNoTempContext ==
    /\ pc = "canvas"
    /\ tempCanvas' = createCanvas(tileSize, tileSize)
    /\ pc' = "thrown"
    /\ error' = NoTempContext
    /\ UNCHANGED <<inputs, shell, cols, rows, totalTilesPossible, resultCanvas,
                   uniqueCount, resultTiles, x, y, uniqueTilesMap,
                   uniqueTilesList, index, result, history, environment>>

(* getContext('2d') returned null for the result canvas (line 83) *)
ThrowNoResultContext ==
    /\ pc = "canvas"
    /\ tempCanvas' = createCanvas(tileSize, tileSize)
    /\ pc' = "thrown"
    /\ error' = NoResultContext
    /\ UNCHANGED <<inputs, shell, cols, rows, totalTilesPossible, resultCanvas,
                   uniqueCount, resultTiles, x, y, uniqueTilesMap,
                   uniqueTilesList, index, result, history, environment>>

(* tempCtx.clearRect(...); tempCtx.drawImage(sourceImage, x * tileSize,    *)
(* y * tileSize, tileSize, tileSize, 0, 0, tileSize, tileSize)             *)
ExtractCell(cx, cy) ==
    drawImage(clearRect(tempCanvas), sourceImage,
              cx * tileSize, cy * tileSize, tileSize, tileSize, 0, 0)

NextCellMut(cx, cy) ==
    IF cy + 1 < rows THEN <<cx, cy + 1>>
    ELSE IF cx + 1 < cols THEN <<cx + 1, 0>> ELSE <<0, rows>>
(* for (y ...) for (x ...): the cell after (cx, cy); <<0, rows>> past the end *)
NextCell(cx, cy) == IF cx + 1 < cols THEN <<cx + 1, cy>> ELSE <<0, cy + 1>>

(* y < rows fails *)
ScanDone(cx, cy) == cy >= rows

OriginalIdMut(cx, cy) == cy * rows + cx
(* const id = y * cols + x *)
OriginalId(cx, cy) == cy * cols + cx

(* Lines 90-106 *)
OriginalDraw ==
    /\ pc = "original"
    /\ LET finalWidth == cols * tileSize
           finalHeight == rows * tileSize
       IN resultCanvas' = drawImage(clearRect(createCanvas(finalWidth, finalHeight)),
                                    sourceImage, 0, 0, finalWidth, finalHeight, 0, 0)
    /\ uniqueCount' = totalTilesPossible
    /\ x' = 0 /\ y' = 0
    /\ pc' = "originalLoop"
    /\ UNCHANGED <<inputs, shell, cols, rows, totalTilesPossible, tempCanvas,
                   resultTiles, uniqueTilesMap, uniqueTilesList, index,
                   result, error, history, environment>>

(* Lines 109-125, one iteration *)
OriginalCell ==
    /\ pc = "originalLoop"
    /\ ~ScanDone(x, y)
    /\ tempCanvas' = ExtractCell(x, y)
    /\ resultTiles' = Append(resultTiles,
                             [id |-> OriginalId(x, y),
                              x |-> x * tileSize,
                              y |-> y * tileSize,
                              isSolid |-> detectCollision(tempCanvas', tileSize)])
    /\ x' = NextCell(x, y)[1]
    /\ y' = NextCell(x, y)[2]
    /\ pc' = IF ScanDone(x', y') THEN "manifest" ELSE "originalLoop"
    /\ UNCHANGED <<inputs, shell, cols, rows, totalTilesPossible, resultCanvas,
                   uniqueCount, uniqueTilesMap, uniqueTilesList, index,
                   result, error, history, environment>>

ProbeFailureValueMut == TRUE
(* catch (e) { return false } of detectCollision (lines 49-51), and the    *)
(* ': false' of line 179 for a tile canvas without a context               *)
ProbeFailureValue == FALSE

(* Lines 109-125, one iteration in which tempCtx.getImageData throws       *)
(* inside detectCollision: the catch block returns, the tile is pushed     *)
OriginalCellUnreadable ==
    /\ pc = "originalLoop"
    /\ ~ScanDone(x, y)
    /\ mayFault
    /\ tempCanvas' = ExtractCell(x, y)
    /\ resultTiles' = Append(resultTiles,
                             [id |-> OriginalId(x, y),
                              x |-> x * tileSize,
                              y |-> y * tileSize,
                              isSolid |-> ProbeFailureValue])
    /\ unreadable' = unreadable \cup {Len(resultTiles')}
    /\ mayFault' = FALSE
    /\ x' = NextCell(x, y)[1]
    /\ y' = NextCell(x, y)[2]
    /\ pc' = IF ScanDone(x', y') THEN "manifest" ELSE "originalLoop"
    /\ UNCHANGED <<inputs, shell, cols, rows, totalTilesPossible, resultCanvas,
                   uniqueCount, uniqueTilesMap, uniqueTilesList, index,
                   result, error, history, noContext, prevFailed>>

FreshMapMut == uniqueTilesMap
(* new Map() at line 130 is a local of processImage: every invocation      *)
(* starts with an empty map                                                *)
FreshMap == EmptyMap

(* Lines 130-131 *)
OptimizedStart ==
    /\ pc = "scan"
    /\ uniqueTilesMap' = FreshMap
    /\ uniqueTilesList' = <<>>
    /\ x' = 0 /\ y' = 0
    /\ pc' = "scanLoop"
    /\ UNCHANGED <<inputs, shell, cols, rows, totalTilesPossible, tempCanvas,
                   resultCanvas, uniqueCount, resultTiles, index, result,
                   error, history, environment>>

TileHashMut(canvas) ==
    [row \in 1..canvas.height |-> [col \in 1..canvas.width |-> canvas.data[row][col][4]]]
(* const tileHash = tempCanvas.toDataURL('image/png') *)
TileHash(canvas) == toDataURL(canvas)

(* Lines 134-155, one iteration with !uniqueTilesMap.has(tileHash) *)
ScanNewTile ==
    /\ pc = "scanLoop"
    /\ ~ScanDone(x, y)
    /\ tempCanvas' = ExtractCell(x, y)
    /\ LET tileHash == TileHash(tempCanvas')
           tileCanvas == drawImage(createCanvas(tileSize, tileSize), tempCanvas',
                                   0, 0, tileSize, tileSize, 0, 0)
       IN /\ tileHash \notin DOMAIN uniqueTilesMap
          /\ uniqueTilesMap' = [h \in DOMAIN uniqueTilesMap \cup {tileHash} |->
                                   IF h = tileHash THEN tileCanvas
                                   ELSE uniqueTilesMap[h]]
          /\ uniqueTilesList' = Append(uniqueTilesList,
                                       [canvas |-> tileCanvas, hash |-> tileHash])
    /\ x' = NextCell(x, y)[1]
    /\ y' = NextCell(x, y)[2]
    /\ pc' = IF ScanDone(x', y') THEN "pack" ELSE "scanLoop"
    /\ UNCHANGED <<inputs, shell, cols, rows, totalTilesPossible, resultCanvas,
                   uniqueCount, resultTiles, index, result, error, history, environment>>

(* Lines 134-155, one iteration with !uniqueTilesMap.has(tileHash) in      *)
(* which tileCanvas.getContext('2d') is null: tileCtx?.drawImage draws     *)
(* nothing, and the blank canvas is registered under the cell's hash       *)
ScanNewTileNoContext ==
    /\ pc = "scanLoop"
    /\ ~ScanDone(x, y)
    /\ mayFault
    /\ tempCanvas' = ExtractCell(x, y)
    /\ LET tileHash == TileHash(tempCanvas')
           tileCanvas == createCanvas(tileSize, tileSize)
       IN /\ tileHash \notin DOMAIN uniqueTilesMap
          /\ uniqueTilesMap' = [h \in DOMAIN uniqueTilesMap \cup {tileHash} |->
                                   IF h = tileHash THEN tileCanvas
                                   ELSE uniqueTilesMap[h]]
          /\ uniqueTilesList' = Append(uniqueTilesList,
                                       [canvas |-> tileCanvas, hash |-> tileHash])
    /\ noContext' = noContext \cup {Len(uniqueTilesList')}
    /\ mayFault' = FALSE
    /\ x' = NextCell(x, y)[1]
    /\ y' = NextCell(x, y)[2]
    /\ pc' = IF ScanDone(x', y') THEN "pack" ELSE "scanLoop"
    /\ UNCHANGED <<inputs, shell, cols, rows, totalTilesPossible, resultCanvas,
                   uniqueCount, resultTiles, index, result, error, history,
                   unreadable, prevFailed>>

(* Lines 134-155, one iteration with uniqueTilesMap.has(tileHash) *)
ScanSeenTile ==
    /\ pc = "scanLoop"
    /\ ~ScanDone(x, y)
    /\ tempCanvas' = ExtractCell(x, y)
    /\ TileHash(tempCanvas') \in DOMAIN uniqueTilesMap
    /\ x' = NextCell(x, y)[1]
    /\ y' = NextCell(x, y)[2]
    /\ pc' = IF ScanDone(x', y') THEN "pack" ELSE "scanLoop"
    /\ UNCHANGED <<inputs, shell, cols, rows, totalTilesPossible, resultCanvas,
                   uniqueCount, resultTiles, uniqueTilesMap, uniqueTilesList,
                   index, result, error, history, environment>>

OutRowsMut(count, outCols) == Floor(count, outCols)
(* const outRows = Math.ceil(uniqueCount / outCols) *)
OutRows(count, outCols) == Ceil(count, outCols)

OutWidthMut(count, outCols, size) ==
    (IF count < outCols THEN count ELSE outCols) * size
(* resultCanvas.width = outCols * tileSize *)
OutWidth(count, outCols, size) == outCols * size

(* Lines 158-166 *)
PackSetup ==
    /\ pc = "pack"
    /\ uniqueCount' = Len(uniqueTilesList)
    /\ LET outCols == columns
           outRows == OutRows(uniqueCount', outCols)
       IN resultCanvas' = clearRect(createCanvas(OutWidth(uniqueCount', outCols, tileSize),
                                                 outRows * tileSize))
    /\ index' = 0
    /\ pc' = IF Len(uniqueTilesList) = 0 THEN "manifest" ELSE "forEach"
    /\ UNCHANGED <<inputs, shell, cols, rows, totalTilesPossible, tempCanvas,
                   resultTiles, x, y, uniqueTilesMap, uniqueTilesList,
                   result, error, history, environment>>

(* index % outCols and Math.floor(index / outCols) *)
DrawCol(i, outCols) == i % outCols
DrawRow(i, outCols) == Floor(i, outCols)

(* Lines 169-188, one call of the forEach callback.  A canvas whose        *)
(* context could not be created has no pixels drawn on it: whether line    *)
(* 179 gets null again or a context on the blank canvas, isSolid is false. *)
PackTile ==
    /\ pc = "forEach"
    /\ index < Len(uniqueTilesList)
    /\ LET item == uniqueTilesList[index + 1]
           outCols == columns
           drawX == DrawCol(index, outCols) * tileSize
           drawY == DrawRow(index, outCols) * tileSize
       IN /\ resultCanvas' = drawImage(resultCanvas, item.canvas, 0, 0,
                                       item.canvas.width, item.canvas.height,
                                       drawX, drawY)
          /\ resultTiles' = Append(resultTiles,
                                   [id |-> index, x |-> drawX, y |-> drawY,
                                    isSolid |-> IF (index + 1) \in noContext
                                                THEN ProbeFailureValue
                                                ELSE detectCollision(item.canvas, tileSize)])
    /\ index' = index + 1
    /\ pc' = IF index' < Len(uniqueTilesList) THEN "forEach" ELSE "manifest"
    /\ UNCHANGED <<inputs, shell, cols, rows, totalTilesPossible, tempCanvas,
                   uniqueCount, x, y, uniqueTilesMap, uniqueTilesList,
                   result, error, history, environment>>

(* Lines 169-188, one call of the forEach callback in which                *)
(* tileTempCtx.getImageData throws inside detectCollision                  *)
PackTileUnreadable ==
    /\ pc = "forEach"
    /\ index < Len(uniqueTilesList)
    /\ mayFault
    /\ (index + 1) \notin noContext
    /\ LET item == uniqueTilesList[index + 1]
           outCols == columns
           drawX == DrawCol(index, outCols) * tileSize
           drawY == DrawRow(index, outCols) * tileSize
       IN /\ resultCanvas' = drawImage(resultCanvas, item.canvas, 0, 0,
                                       item.canvas.width, item.canvas.height,
                                       drawX, drawY)
          /\ resultTiles' = Append(resultTiles,
                                   [id |-> index, x |-> drawX, y |-> drawY,
                                    isSolid |-> ProbeFailureValue])
    /\ unreadable' = unreadable \cup {index + 1}
    /\ mayFault' = FALSE
    /\ index' = index + 1
    /\ pc' = IF index' < Len(uniqueTilesList) THEN "forEach" ELSE "manifest"
    /\ UNCHANGED <<inputs, shell, cols, rows, totalTilesPossible, tempCanvas,
                   uniqueCount, x, y, uniqueTilesMap, uniqueTilesList,
                   result, error, history, noContext, prevFailed>>

(* Lines 191-218 *)
BuildResult ==
    /\ pc = "manifest"
    /\ result' = [produced |-> TRUE,
                  dataUrl |-> toDataURL(resultCanvas),
                  width |-> resultCanvas.width,
                  height |-> resultCanvas.height,
                  totalTiles |-> totalTilesPossible,
                  uniqueTiles |-> uniqueCount,
                  tiles |-> resultTiles,
                  jsonContent |-> JSONstringify(tileSize, mode, resultCanvas,
                                                resultTiles, now)]
    /\ pc' = "returned"
    /\ UNCHANGED <<inputs, shell, locals, error, history, environment>>

(* The caller invokes processImage again on the same source and options,   *)
(* at a later instant.  Every local of the previous invocation is gone.    *)
Reinvoke ==
    /\ pc \in {"returned", "thrown"}
    /\ runs < MaxRuns
    /\ runs' = runs + 1
    /\ prevResult' = result
    /\ prevError' = error
    /\ now' = now + 1
    /\ result' = NoResult
    /\ error' = NoError
    /\ pc' = "call"
    /\ cols' = 0 /\ rows' = 0 /\ totalTilesPossible' = 0
    /\ tempCanvas' = NoCanvas /\ resultCanvas' = NoCanvas
    /\ uniqueCount' = 0 /\ resultTiles' = <<>>
    /\ x' = 0 /\ y' = 0
    /\ uniqueTilesMap' = FreshMap /\ uniqueTilesList' = <<>>
    /\ index' = 0
    /\ prevFailed' = unreadable \cup noContext
    /\ unreadable' = {} /\ noContext' = {}
    /\ UNCHANGED <<inputs, shell, mayFault>>

Next ==
    \/ ComputeGrid
    \/ ThrowInvalidDimensions
    \/ CreateCanvases
    \/ ThrowNoTempContext
    \/ ThrowNoResultContext
    \/ OriginalDraw
    \/ OriginalCell
    \/ OriginalCellUnreadable
    \/ OptimizedStart
    \/ ScanNewTile
    \/ ScanNewTileNoContext
    \/ ScanSeenTile
    \/ PackSetup
    \/ PackTile
    \/ PackTileUnreadable
    \/ BuildResult
    \/ Reinvoke

Spec == Init /\ [][Next]_vars

TypeOK ==
    /\ pc \in {"call", "canvas", "original", "originalLoop", "scan", "scanLoop",
               "pack", "forEach", "manifest", "returned", "thrown"}
    /\ runs \in 1..MaxRuns
    /\ error \in {NoError, InvalidDimensions, NoTempContext, NoResultContext}
    /\ mayFault \in BOOLEAN
    /\ unreadable \subseteq 1..Len(resultTiles)
    /\ noContext \subseteq 1..Len(uniqueTilesList)

----------------------------------------------------------------------------
(* The App component: its React state, the file loads in flight and the    *)
(* pending timeout callbacks.  Every handler runs to completion on the     *)
(* event loop; processImage has no await inside, so the timeout callback   *)
(* (call, await of the settled promise, setResult) is not interleaved      *)
(* with another task.                                                      *)

NotAnImage == "NotAnImage"
LoadFailed == "LoadFailed"

(* The files the user can pick or drop: decodable square images, a damaged *)
(* image file and a file that is not an image                              *)
Files ==
    { [name |-> n, type |-> "image/png", decodes |-> TRUE] : n \in 1..MaxFiles }
        \cup { [name |-> MaxFiles + 1, type |-> "image/png", decodes |-> FALSE],
               [name |-> MaxFiles + 2, type |-> "text/plain", decodes |-> FALSE] }
(* The HTMLImageElement a decodable file loads into *)
ImageOf(file) == [name |-> file.name, width |-> file.name, height |-> file.name]

(* parseInt(e.target.value): <<>> is NaN *)
ParsedTexts == {<<>>} \cup {<<n>> : n \in (0 - 1)..MaxTileSize}
(* Math.max(1, parseInt(e.target.value) || 48) at line 224 *)
TileSizeOf(parsed) ==
    IF parsed = <<>> \/ parsed = <<0>> THEN DEFAULT_TILE_SIZE
    ELSE IF parsed[1] < 1 THEN 1 ELSE parsed[1]

(* What processImage(image, {tileSize, mode, columns: 8}) settles to: the  *)
(* rejection of lines 68-70, or a result, which is a function of the       *)
(* image and the options it was called with                                *)
ProcessOutcome(image, size, m) ==
    LET c == GridCols(image.width, size)
        r == GridCols(image.height, size)
    IN IF IsTooSmall(c * r)
       THEN [produced |-> FALSE, message |-> InvalidDimensions]
       ELSE [produced |-> TRUE, image |-> image.name, tileSize |-> size,
             mode |-> m, totalTiles |-> c * r]

InitApp ==
    /\ app = InitialState /\ decoding = {} /\ timers = {}
    /\ sourceImage = NoCanvas
    /\ options = [tileSize |-> DEFAULT_TILE_SIZE, mode |-> "original",
                  columns |-> <<DefaultColumns>>]
    /\ mayFault = FALSE
    /\ unreadable = {} /\ noContext = {} /\ prevFailed = {}
    /\ pc = "call"
    /\ cols = 0 /\ rows = 0 /\ totalTilesPossible = 0
    /\ tempCanvas = NoCanvas /\ resultCanvas = NoCanvas
    /\ uniqueCount = 0 /\ resultTiles = <<>>
    /\ x = 0 /\ y = 0
    /\ uniqueTilesMap = EmptyMap /\ uniqueTilesList = <<>>
    /\ index = 0
    /\ result = NoResult /\ error = NoError
    /\ runs = 1 /\ prevResult = NoResult /\ prevError = NoError
    /\ now = 0

(* processFile (lines 45-68) up to reader.readAsDataURL(file) *)
processFile(file) ==
    /\ IF file.type # "image/png"
       THEN /\ app' = [app EXCEPT !.error = NotAnImage]
            /\ UNCHANGED decoding
       ELSE /\ decoding' = decoding \cup {file}
            /\ UNCHANGED app
    /\ UNCHANGED <<timers, pipeline>>

(* reader.onload, then img.onload (lines 54-63) *)
ImgOnload(file) ==
    /\ file \in decoding
    /\ file.decodes
    /\ decoding' = decoding \ {file}
    /\ app' = [app EXCEPT !.sourceImage = ImageOf(file),
                          !.fileName = file.name,
                          !.result = NoResult,
                          !.error = NoError]
    /\ UNCHANGED <<timers, pipeline>>

(* reader.onload, then img.onerror (line 64) *)
ImgOnerror(file) ==
    /\ file \in decoding
    /\ ~file.decodes
    /\ decoding' = decoding \ {file}
    /\ app' = [app EXCEPT !.error = LoadFailed]
    /\ UNCHANGED <<timers, pipeline>>

(* onChange of the tile size input (line 224) *)
SetTileSize(parsed) ==
    /\ app' = [app EXCEPT !.tileSize = TileSizeOf(parsed)]
    /\ UNCHANGED <<decoding, timers, pipeline>>

(* onChange of the mode radios (lines 248, 270) *)
SetMode(m) ==
    /\ app' = [app EXCEPT !.mode = m]
    /\ UNCHANGED <<decoding, timers, pipeline>>

(* disabled={!sourceImage || isProcessing} at line 287 *)
ButtonDisabled == app.sourceImage = NoImage \/ app.isProcessing

(* The sourceImage the callback passes to processImage is the one the      *)
(* closure of handleProcess captured at the click (lines 96-117)           *)
CapturedImage(closure) == closure.sourceImage

(* A click on the process button: handleProcess up to setTimeout (96-117) *)
handleProcess ==
    /\ ~ButtonDisabled
    /\ app.sourceImage # NoImage
    /\ app' = [app EXCEPT !.isProcessing = TRUE, !.error = NoError]
    /\ timers' = timers \cup {[sourceImage |-> app.sourceImage,
                                tileSize |-> app.tileSize, mode |-> app.mode]}
    /\ UNCHANGED <<decoding, pipeline>>

(* The callback of setTimeout(..., 100) (lines 103-115) *)
TimeoutCallback ==
    \E closure \in timers :
        /\ timers' = timers \ {closure}
        /\ LET res == ProcessOutcome(CapturedImage(closure), closure.tileSize,
                                     closure.mode)
           IN app' = IF res.produced
                     THEN [app EXCEPT !.result = res, !.isProcessing = FALSE]
                     ELSE [app EXCEPT !.error = res.message,
                                      !.isProcessing = FALSE]
        /\ UNCHANGED <<decoding, pipeline>>

NextApp ==
    \/ \E file \in Files : processFile(file)
    \/ \E file \in Files : ImgOnload(file)
    \/ \E file \in Files : ImgOnerror(file)
    \/ \E parsed \in ParsedTexts : SetTileSize(parsed)
    \/ \E m \in {"original", "optimized"} : SetMode(m)
    \/ handleProcess
    \/ TimeoutCallback

SpecApp == InitApp /\ [][NextApp]_vars

----------------------------------------------------------------------------
(* What the documentation states, in terms of the input alone *)

W == sourceImage.width
H == sourceImage.height
T == options.tileSize

(* The number of whole tiles that fit along an axis of the given length *)
WholeTiles(length) == Cardinality({n \in 1..length : n * T <= length})
SpecCols == WholeTiles(W)
SpecRows == WholeTiles(H)

C2_InvalidDimensions ==
    (SpecCols * SpecRows = 0)
        => /\ pc \in {"call", "thrown"}
           /\ pc = "thrown" => error = InvalidDimensions
           /\ ~result.produced /\ ~prevResult.produced
           /\ tempCanvas = NoCanvas /\ resultCanvas = NoCanvas
           /\ resultTiles = <<>> /\ uniqueTilesList = <<>>
           /\ uniqueCount = 0

(* The 40x40 source with 48-pixel tiles has thrown *)
C2_Witness ==
    /\ pc = "thrown" /\ error = InvalidDimensions
    /\ W = DEFAULT_TILE_SIZE - 8 /\ H = DEFAULT_TILE_SIZE - 8
    /\ T = DEFAULT_TILE_SIZE
    /\ ~result.produced

(* Grid cells are numbered in row-major order: in a grid of nc columns,    *)
(* cell k is at column k mod nc of row k div nc.                           *)
CellPixel(nc, k, dx, dy) ==
    PixelAt(sourceImage, (k % nc) * T + dx, (k \div nc) * T + dy)
(* The pixel bytes of cell k, row by row *)
CellContent(nc, k) ==
    [row \in 1..T |-> [col \in 1..T |-> CellPixel(nc, k, col - 1, row - 1)]]
(* Two cells with byte-identical pixels *)
SameCell(nc, j, k) ==
    \A dx \in 0..(T - 1), dy \in 0..(T - 1) :
        CellPixel(nc, j, dx, dy) = CellPixel(nc, k, dx, dy)
(* The cells among the first n whose content occurs in no earlier cell *)
FirstSeen(nc, n) == {k \in 0..(n - 1) : \A j \in 0..(k - 1) : ~SameCell(nc, j, k)}
(* The number of first-seen cells before cell k *)
Rank(nc, k) == Cardinality(FirstSeen(nc, k))

(* C3: in Optimized mode 1 <= uniqueTiles <= totalTiles; uniqueTiles equals *)
(* totalTiles exactly when no two grid cells of the source have identical  *)
(* pixel bytes; cells are merged exactly when their bytes are identical,   *)
(* so uniqueTiles is the number of distinct cell contents.                 *)
C3_UniqueTiles ==
    (result.produced /\ mode = "optimized")
        => LET nc == SpecCols
               n == SpecCols * SpecRows
           IN /\ 1 <= result.uniqueTiles
              /\ result.uniqueTiles <= result.totalTiles
              /\ (result.uniqueTiles = result.totalTiles)
                   <=> (\A j, k \in 0..(n - 1) : j # k => ~SameCell(nc, j, k))
              /\ result.uniqueTiles = Cardinality(FirstSeen(nc, n))

(* Some cells were merged and some were not, and two unmerged cells differ *)
(* in one colour byte only.                                                *)
C3_Witness ==
    /\ result.produced /\ mode = "optimized"
    /\ result.uniqueTiles >= 2
    /\ result.uniqueTiles < result.totalTiles
    /\ LET nc == SpecCols
       IN \E j, k \in 0..(result.totalTiles - 1) :
             /\ ~SameCell(nc, j, k)
             /\ \A dx \in 0..(T - 1), dy \in 0..(T - 1) :
                   CellPixel(nc, j, dx, dy)[4] = CellPixel(nc, k, dx, dy)[4]

(* The number of cells the scan has passed, in a grid of nc by nr cells *)
Scanned(nc, nr) == IF pc = "scanLoop" THEN y * nc + x ELSE nc * nr

(* C4: throughout an Optimized run the retained unique tiles are, in       *)
(* order, the contents first seen in the row-major scan of the cells       *)
(* passed so far: the tile with id k is registered under the encoding of  *)
(* the k-th distinct content, a cell whose content was seen before adds    *)
(* nothing, and the ids of the result are 0, 1, 2, ... in that order.      *)
C4_DiscoveryOrder ==
    (mode = "optimized" /\ pc \in {"scanLoop", "pack", "forEach", "manifest", "returned"})
        => LET nc == SpecCols
               seen == FirstSeen(nc, Scanned(nc, SpecRows))
           IN /\ Len(uniqueTilesList) = Cardinality(seen)
              /\ \A k \in seen :
                    uniqueTilesList[Rank(nc, k) + 1].hash =
                        toDataURL([width |-> T, height |-> T,
                                   data |-> CellContent(nc, k)])
              /\ \A i \in 1..Len(resultTiles) : resultTiles[i].id = i - 1
              /\ pc = "returned" =>
                    /\ result.tiles = resultTiles
                    /\ Len(result.tiles) = Len(uniqueTilesList)

(* Three distinct contents and a skipped duplicate, in a grid with two     *)
(* rows where row-major and column-major discovery differ, and the first   *)
(* tile's bytes are larger than the second's.                              *)
C4_Witness ==
    /\ pc = "returned" /\ mode = "optimized"
    /\ result.uniqueTiles = 3 /\ result.totalTiles > 3
    /\ SpecRows = 2
    /\ FirstSeen(SpecCols, result.totalTiles) = {0, 1, SpecCols}
    /\ uniqueTilesList[1].canvas.data[1][1][4] > uniqueTilesList[2].canvas.data[1][1][4]

(* C5: in Original mode the result lists cols*rows tiles; the tile of grid *)
(* cell (col, row) is the (row*cols + col)-th, has id row*cols + col and   *)
(* origin (col*tileSize, row*tileSize); the output is cols*tileSize by     *)
(* rows*tileSize; uniqueTiles = totalTiles.                                *)
C5_OriginalLayout ==
    (result.produced /\ mode = "original")
        => /\ Len(result.tiles) = SpecCols * SpecRows
           /\ \A col \in 0..(SpecCols - 1), row \in 0..(SpecRows - 1) :
                 LET t == result.tiles[row * SpecCols + col + 1]
                 IN /\ t.id = row * SpecCols + col
                    /\ t.x = col * T
                    /\ t.y = row * T
           /\ result.width = SpecCols * T
           /\ result.height = SpecRows * T
           /\ result.uniqueTiles = result.totalTiles

(* Scenario A: 96x96 source, 48-pixel tiles: ids 0,1,2,3 and a 96x96 output *)
C5_Witness ==
    /\ result.produced /\ mode = "original"
    /\ W = 2 * DEFAULT_TILE_SIZE /\ H = 2 * DEFAULT_TILE_SIZE /\ T = DEFAULT_TILE_SIZE
    /\ [i \in 1..4 |-> result.tiles[i].id] = <<0, 1, 2, 3>>
    /\ result.tiles[4].x = DEFAULT_TILE_SIZE /\ result.tiles[4].y = DEFAULT_TILE_SIZE
    /\ result.width = 2 * DEFAULT_TILE_SIZE /\ result.height = 2 * DEFAULT_TILE_SIZE
    /\ result.totalTiles = 4 /\ result.uniqueTiles = 4

(* The least number of rows of C tiles that hold n tiles *)
RowsFor(n, C) == CHOOSE r \in 0..n : r * C >= n /\ (r = 0 \/ (r - 1) * C < n)

(* C6: in Optimized mode with column count C the i-th tile of the result   *)
(* (from 0) has id i and origin ((i mod C)*tileSize, (i div C)*tileSize),  *)
(* and the output is C*tileSize wide and ceil(uniqueTiles/C)*tileSize tall. *)
C6_PackedLayout ==
    (result.produced /\ mode = "optimized")
        => /\ Len(result.tiles) = result.uniqueTiles
           /\ \A i \in 0..(result.uniqueTiles - 1) :
                 LET t == result.tiles[i + 1]
                 IN /\ t.id = i
                    /\ t.x = (i % columns) * T
                    /\ t.y = (i \div columns) * T
           /\ result.width = columns * T
           /\ result.height = RowsFor(result.uniqueTiles, columns) * T

(* Scenario E: ten distinct 48-pixel tiles, 8 columns: 384x96, tiles 8 and *)
(* 9 in row 1 at columns 0 and 1.                                          *)
C6_Witness ==
    /\ result.produced /\ mode = "optimized"
    /\ W = 10 * DEFAULT_TILE_SIZE /\ H = DEFAULT_TILE_SIZE /\ T = DEFAULT_TILE_SIZE
    /\ columns = 8
    /\ result.uniqueTiles = 10
    /\ result.width = 384 /\ result.height = 96
    /\ result.tiles[9].id = 8 /\ result.tiles[9].x = 0 /\ result.tiles[9].y = 48
    /\ result.tiles[10].id = 9 /\ result.tiles[10].x = 48 /\ result.tiles[10].y = 48

(* Scenario B: a 96x48 source whose two 48x48 halves are identical, 48-pixel *)
(* tiles, Optimized, 8 columns.                                            *)
ScenarioB ==
    /\ W = 2 * DEFAULT_TILE_SIZE /\ H = DEFAULT_TILE_SIZE /\ T = DEFAULT_TILE_SIZE
    /\ mode = "optimized" /\ columns = 8
    /\ SameCell(2, 0, 1)

(* C7 as stated: scenario B gives totalTiles 2, uniqueTiles 1, a 48x48     *)
(* output and the single tile with id 0.                                   *)
C7_AsStated ==
    (result.produced /\ ScenarioB)
        => /\ result.totalTiles = 2 /\ result.uniqueTiles = 1
           /\ result.width = 48 /\ result.height = 48
           /\ Len(result.tiles) = 1 /\ result.tiles[1].id = 0

(* C7 amended: scenario B gives totalTiles 2, uniqueTiles 1, the single    *)
(* tile with id 0 at the origin, and an output of 384x48 pixels (8 columns *)
(* of 48 pixels wide, one row).                                            *)
C7_ScenarioB ==
    (result.produced /\ ScenarioB)
        => /\ result.totalTiles = 2 /\ result.uniqueTiles = 1
           /\ result.width = 384 /\ result.height = 48
           /\ Len(result.tiles) = 1 /\ result.tiles[1].id = 0
           /\ result.tiles[1].x = 0 /\ result.tiles[1].y = 0

C7_Witness ==
    /\ result.produced /\ ScenarioB
    /\ result.uniqueTiles = 1 /\ result.width = 8 * DEFAULT_TILE_SIZE


(* The pixels of a tileSize x tileSize buffer that count as filled *)
FilledPixels(canvas) ==
    {q \in (0..(T - 1)) \X (0..(T - 1)) : PixelAt(canvas, q[1], q[2])[4] > 10}
(* (number of pixels with alpha > 10) / tileSize^2 > 0.75 *)
SolidBySpec(canvas) == 4 * Cardinality(FilledPixels(canvas)) > 3 * T * T
RatioIsThreeQuarters(canvas) == 4 * Cardinality(FilledPixels(canvas)) = 3 * T * T

(* The buffer the i-th tile of resultTiles was classified on: the scratch  *)
(* canvas right after the cell was drawn on it (Original), the retained    *)
(* canvas of the i-th unique tile (Optimized); the tiles whose buffer      *)
(* could not be read are left out.                                         *)
ClassifiedTiles ==
    IF mode = "original"
    THEN IF Len(resultTiles) = 0 \/ Len(resultTiles) \in unreadable
         THEN {} ELSE {<<Len(resultTiles), tempCanvas>>}
    ELSE {<<i, uniqueTilesList[i].canvas>> : i \in (1..Len(resultTiles)) \ unreadable}

(* C8: every tile whose buffer was read is solid exactly when more than three *)
(* quarters of its tileSize^2 pixels have alpha > 10; so a fully opaque    *)
(* tile is solid and a fully transparent tile is not.                      *)
C8_Collision ==
    \A c \in ClassifiedTiles :
        LET isSolid == resultTiles[c[1]].isSolid
            alphas == {PixelAt(c[2], q[1], q[2])[4] : q \in (0..(T - 1)) \X (0..(T - 1))}
        IN /\ isSolid <=> SolidBySpec(c[2])
           /\ alphas = {255} => isSolid
           /\ alphas = {0} => ~isSolid

(* A tile whose ratio is exactly 0.75, the remaining pixels having alpha   *)
(* exactly 10, is classified not solid.                                    *)
C8_Witness ==
    \E c \in ClassifiedTiles :
        /\ RatioIsThreeQuarters(c[2])
        /\ \E q \in (0..(T - 1)) \X (0..(T - 1)) : PixelAt(c[2], q[1], q[2])[4] = 10
        /\ ~resultTiles[c[1]].isSolid

(* C9: the tiles array of the manifest is in ascending id order, and       *)
(* parsing the manifest gives as many tiles as the result lists            *)
(* (uniqueTiles), each with the id and the isSolid flag of the result's    *)
(* tile, and the width and height of the result in its config.             *)
C9_ManifestRoundTrip ==
    result.produced
        => LET m == JSONparse(result.jsonContent)
           IN /\ Len(m.tiles) = Len(result.tiles)
              /\ Len(m.tiles) = result.uniqueTiles
              /\ \A i \in 1..Len(m.tiles) :
                    /\ m.tiles[i].id = result.tiles[i].id
                    /\ m.tiles[i].collision = result.tiles[i].isSolid
              /\ \A i, j \in 1..Len(m.tiles) : i < j => m.tiles[i].id < m.tiles[j].id
              /\ m.config.width = result.width
              /\ m.config.height = result.height

(* A manifest of at least three tiles, solid and not solid, and an output  *)
(* width of several digits                                                 *)
C9_Witness ==
    /\ result.produced
    /\ Len(JSONparse(result.jsonContent).tiles) >= 3
    /\ \E i, j \in 1..Len(result.tiles) :
          /\ JSONparse(result.jsonContent).tiles[i].collision
          /\ ~JSONparse(result.jsonContent).tiles[j].collision
          /\ result.tiles[i].isSolid /\ ~result.tiles[j].isSolid

Failed == unreadable \cup noContext

(* C11: a failure to read one tile's pixels during classification gives    *)
(* that tile isSolid = false and nothing else: the invocation still        *)
(* returns a result, and against an invocation on the same source and      *)
(* options in which every tile was read, every other tile has the same     *)
(* classification, and totalTiles, uniqueTiles, the tiles' ids and         *)
(* positions and the output size are the same.                             *)
C11_ProbeFailure ==
    /\ (Failed # {}) => pc # "thrown"
    /\ (Failed # {} /\ pc \in {"manifest", "returned"})
          => \A i \in Failed : ~resultTiles[i].isSolid
    /\ (pc = "returned" /\ prevResult.produced /\ (Failed # {} \/ prevFailed # {}))
          => /\ result.produced
             /\ Len(result.tiles) = Len(prevResult.tiles)
             /\ \A i \in 1..Len(result.tiles) :
                   /\ result.tiles[i].id = prevResult.tiles[i].id
                   /\ result.tiles[i].x = prevResult.tiles[i].x
                   /\ result.tiles[i].y = prevResult.tiles[i].y
                   /\ i \in Failed => ~result.tiles[i].isSolid
                   /\ i \in prevFailed => ~prevResult.tiles[i].isSolid
                   /\ i \notin (Failed \cup prevFailed)
                         => result.tiles[i].isSolid = prevResult.tiles[i].isSolid
             /\ result.totalTiles = prevResult.totalTiles
             /\ result.uniqueTiles = prevResult.uniqueTiles
             /\ result.width = prevResult.width
             /\ result.height = prevResult.height

(* The first invocation could not read the second of three tiles, the      *)
(* second invocation read them all: the second tile is solid when read,    *)
(* and another tile is solid in both.                                      *)
C11_Witness ==
    /\ pc = "returned" /\ runs = 2 /\ prevResult.produced
    /\ prevFailed = {2} /\ Failed = {}
    /\ Len(result.tiles) >= 3
    /\ result.tiles[2].isSolid /\ ~prevResult.tiles[2].isSolid
    /\ \E i \in 1..Len(result.tiles) :
          i # 2 /\ result.tiles[i].isSolid /\ prevResult.tiles[i].isSolid

(* The pixel at (px, py) of the atlas the result carries *)
AtlasPixel(px, py) ==
    LET line == result.dataUrl.scanlines[py + 1]
    IN <<line[4 * px + 1], line[4 * px + 2], line[4 * px + 3], line[4 * px + 4]>>
(* The tileSize x tileSize block of the atlas at origin (ox, oy) holds the *)
(* bytes of source cell k                                                  *)
BlockIsCell(nc, ox, oy, k) ==
    \A dx \in 0..(T - 1), dy \in 0..(T - 1) :
        AtlasPixel(ox + dx, oy + dy) = CellPixel(nc, k, dx, dy)
(* The block of atlas cell c (row-major, columns per row) is transparent *)
BlockIsBlank(c) ==
    \A dx \in 0..(T - 1), dy \in 0..(T - 1) :
        AtlasPixel((c % columns) * T + dx, (c \div columns) * T + dy) = Transparent

(* C12: in Optimized mode the atlas holds exactly the unique tiles: the    *)
(* block at the origin of the tile with id i is byte-identical to the      *)
(* source cell where the i-th distinct content was first seen, every       *)
(* source cell's content is in exactly one tile's block, and the atlas     *)
(* cells with index >= uniqueTiles are fully transparent.                  *)
C12_Atlas ==
    (result.produced /\ mode = "optimized")
        => LET nc == SpecCols
               n == SpecCols * SpecRows
               tiles == result.tiles
           IN /\ \A k \in FirstSeen(nc, n) :
                    LET t == tiles[Rank(nc, k) + 1]
                    IN BlockIsCell(nc, t.x, t.y, k)
              /\ \A k \in 0..(n - 1) :
                    Cardinality({i \in 1..Len(tiles) :
                                    BlockIsCell(nc, tiles[i].x, tiles[i].y, k)}) = 1
              /\ \A c \in result.uniqueTiles..
                           (columns * (result.height \div T) - 1) : BlockIsBlank(c)

(* C12 where every tile canvas got its context *)
AtlasOfDrawnTiles == (noContext = {}) => C12_Atlas

(* Three unique tiles packed in two columns, with merged cells and a       *)
(* trailing empty atlas cell                                               *)
AtlasOfDrawnTilesWitness ==
    /\ result.produced /\ mode = "optimized" /\ noContext = {}
    /\ columns = 2 /\ result.uniqueTiles = 3 /\ result.totalTiles > 3
    /\ BlockIsBlank(3)
    /\ C12_Atlas

(* C13: under every interleaving of image loads, clicks on the process     *)
(* button and timeout callbacks, a result the App displays was computed    *)
(* from the source image that is currently loaded.                         *)
C13_ResultOfLoadedImage ==
    app.result.produced => app.result.image = app.sourceImage.name

(* What does hold: a displayed result was computed from an image that was  *)
(* loaded when the process button was clicked, while some image is loaded  *)
ResultOfSomeLoadedImage ==
    app.result.produced
        => /\ app.sourceImage # NoImage
           /\ app.result.image \in 1..MaxFiles

(* At most one timeout callback is pending, and only while processing *)
OnePendingCallback ==
    /\ Cardinality(timers) <= 1
    /\ app.isProcessing <=> timers # {}
====
